---- MODULE Spec2Model ----
(***************************************************************************)
(* Model of TimelineService (features/time-travel/TimelineService.ts):     *)
(* the per-project development timeline with its node store, branch store, *)
(* cursor and checkpoints.  Every public method is one atomic action (the  *)
(* service is synchronous); uuidv4() is a counter of ids never reused, and *)
(* new Date() reads the variable now, which only Tick advances.            *)
(* The payload fields title, description, content and metadata of a node   *)
(* and name, description and created of a branch are never read by any     *)
(* method that decides control flow, and are left out; the node's type is  *)
(* kept.                                                                   *)
(* The second part models the plan handlers of the App component (the      *)
(* steps list, step execution, Auto Run and the edit dialog), which share  *)
(* no state with the service.                                              *)
(***************************************************************************)
EXTENDS Integers, Sequences, FiniteSets, TLC

\* ---------------------------------------------------------------- bounds
MaxUuid == 5            \* number of uuidv4() results the model hands out
MaxClock == 1           \* number of clock ticks (minutes) after the start
maxBranches == 2        \* options.maxBranches as configured for the model
autoCheckpointInterval == 1   \* options.autoCheckpointInterval, in minutes
maxNodesPerBranch == 3        \* options.maxNodesPerBranch as configured for the model

\* ------------------------------------------------------------- constants
DefaultMaxBranches == 10      \* the fallback of `this.options.maxBranches || 10`
MsPerMinute == 60000          \* 1000 * 60
Undefined == 0                \* an absent optional id (parentId?, branchPoint?)

Projects == {"P1"}
NodeTypes == {"code"}                      \* nodeData.type values callers pass
CheckpointInputs == {"x"}                  \* names callers pass to createCheckpoint
UnknownName == "missing"                   \* a name no checkpoint ever has

VARIABLES
  timelines,   \* Map<projectId, Timeline>
  uuid,        \* how many ids uuidv4() has produced
  now,         \* the wall clock, in ms
  last,        \* the last call: its name, arguments and return value
  cpCursor,    \* history: per project and checkpoint name, the cursor
               \* (activeNodeId, activeBranchId) when createCheckpoint bound it
  autoAt       \* history: per project, the time at which addNode last wrote
               \* an automatic checkpoint into the current timeline (0: never)

\* The state of the App component (App.tsx): one variable per useState /
\* useDisclosure value the plan handlers read or write, and the asynchronous
\* work in flight.
VARIABLES
  userInput,            \* useState('')
  steps,                \* useState<Step[]>([])
  currentStep,          \* useState<number | null>(null), 0 for null
  code,                 \* useState(...): the code shown in the editor
  isGeneratingPlan,     \* useState(false): a generatePlan call is in flight
  isEditStepOpen,       \* useDisclosure().isOpen
  editingStep,          \* useState<Step | null>(null): <<>> or <<step>>
  newStepTitle,         \* useState('')
  newStepDescription,   \* useState('')
  autoRun,              \* the runNextStep closure started by executeAllSteps
  inFlight,             \* executeStep calls started from a step's button
  opener                \* history: the handler that last opened the dialog

timelineVars == <<timelines, uuid, now, last, cpCursor, autoAt>>
appVars == <<userInput, steps, currentStep, code, isGeneratingPlan, isEditStepOpen,
             editingStep, newStepTitle, newStepDescription, autoRun, inFlight, opener>>
vars == <<timelineVars, appVars>>

\* ------------------------------------------------------------ map helpers
MapSet(m, k, v) == [x \in (DOMAIN m) \cup {k} |-> IF x = k THEN v ELSE m[x]]
EmptyMap == [x \in {} |-> x]
Has(m, k) == k \in DOMAIN m

\* what the model keeps of a call: the method, the project, the checkpoint
\* name passed (if any) and whether it returned a value other than
\* undefined / false
Call(op, p, nodeId, name, ok, id, path) ==
  [op |-> op, projectId |-> p, name |-> name, ok |-> ok]

\* ------------------------------------------------------- createTimeline
\* mutant: the "initial" checkpoint is not registered
NewTimeline_NoInitialCheckpoint(projectId, mainBranchId, initialNodeId, time) ==
  LET mainBranch == [id |-> mainBranchId, nodeIds |-> <<initialNodeId>>,
                     isActive |-> TRUE, parentBranchId |-> Undefined,
                     branchPoint |-> Undefined]
      initialNode == [id |-> initialNodeId, timestamp |-> time, type |-> "plan",
                      parentId |-> Undefined, childrenIds |-> <<>>,
                      branchId |-> mainBranchId, stepNumber |-> 1]
  IN [projectId |-> projectId,
      branches |-> (mainBranchId :> mainBranch),
      nodes |-> (initialNodeId :> initialNode),
      mainBranchId |-> mainBranchId,
      activeBranchId |-> mainBranchId,
      activeNodeId |-> initialNodeId,
      checkpoints |-> EmptyMap]

NewTimeline(projectId, mainBranchId, initialNodeId, time) ==
  LET mainBranch == [id |-> mainBranchId, nodeIds |-> <<initialNodeId>>,
                     isActive |-> TRUE, parentBranchId |-> Undefined,
                     branchPoint |-> Undefined]
      initialNode == [id |-> initialNodeId, timestamp |-> time, type |-> "plan",
                      parentId |-> Undefined, childrenIds |-> <<>>,
                      branchId |-> mainBranchId, stepNumber |-> 1]
  IN [projectId |-> projectId,
      branches |-> (mainBranchId :> mainBranch),
      nodes |-> (initialNodeId :> initialNode),
      mainBranchId |-> mainBranchId,
      activeBranchId |-> mainBranchId,
      activeNodeId |-> initialNodeId,
      checkpoints |-> ("initial" :> initialNodeId)]

\* mutant: the map of timelines is rebuilt with the new timeline alone
createTimeline_FreshMap(p) ==
  /\ uuid + 2 <= MaxUuid
  /\ timelines' = (p :> NewTimeline(p, uuid + 1, uuid + 2, now))
  /\ uuid' = uuid + 2
  /\ cpCursor' = MapSet(cpCursor, p, EmptyMap)
  /\ autoAt' = MapSet(autoAt, p, 0)
  /\ last' = Call("createTimeline", p, Undefined, "", TRUE, Undefined, <<>>)
  /\ UNCHANGED <<now, appVars>>

createTimeline(p) ==
  /\ uuid + 2 <= MaxUuid
  /\ timelines' = MapSet(timelines, p, NewTimeline(p, uuid + 1, uuid + 2, now))
  /\ uuid' = uuid + 2
  /\ cpCursor' = MapSet(cpCursor, p, EmptyMap)
  /\ autoAt' = MapSet(autoAt, p, 0)
  /\ last' = Call("createTimeline", p, Undefined, "", TRUE, Undefined, <<>>)
  /\ UNCHANGED <<now, appVars>>

\* ---------------------------------------------------------------- addNode
createCheckpointIn(t, checkpointName) ==
  [t EXCEPT !.checkpoints = MapSet(@, checkpointName, t.activeNodeId)]

\* the reduce over the checkpoint entries, starting from new Date(0)
RECURSIVE MaxTime(_, _, _)
MaxTime(t, names, latest) ==
  IF names = {} THEN latest
  ELSE LET n == CHOOSE x \in names : TRUE
           nodeId == t.checkpoints[n]
           current == IF Has(t.nodes, nodeId) THEN t.nodes[nodeId].timestamp ELSE 0
       IN MaxTime(t, names \ {n}, IF current > latest THEN current ELSE latest)

latestCheckpointTime(t) == MaxTime(t, DOMAIN t.checkpoints, 0)

\* `auto-${now.toISOString().replace(/[:.]/g, '-')}`: one name per millisecond
AutoName(time) == "auto-" \o ToString(time)

\* mutant: the elapsed time must exceed the interval (> for >=)
AutoCheckpointDue_Strict(t, time) ==
  /\ autoCheckpointInterval # 0
  /\ time - latestCheckpointTime(t) > autoCheckpointInterval * MsPerMinute

AutoCheckpointDue(t, time) ==
  /\ autoCheckpointInterval # 0
  /\ time - latestCheckpointTime(t) >= autoCheckpointInterval * MsPerMinute

createAutoCheckpointIfNeeded(t, time) ==
  IF AutoCheckpointDue(t, time) THEN createCheckpointIn(t, AutoName(time)) ELSE t

\* mutant: the new node is stored but not linked into its parent's children
InsertNode_NoChildLink(t, newNodeId, type, time) ==
  LET activeNode == t.nodes[t.activeNodeId]
      activeBranch == t.branches[t.activeBranchId]
      newNode == [id |-> newNodeId, timestamp |-> time, type |-> type,
                  parentId |-> activeNode.id, childrenIds |-> <<>>,
                  branchId |-> t.activeBranchId,
                  stepNumber |-> activeNode.stepNumber + 1]
      branches1 == MapSet(t.branches, activeBranch.id,
                          [activeBranch EXCEPT !.nodeIds = Append(@, newNodeId)])
  IN [t EXCEPT !.nodes = MapSet(t.nodes, newNodeId, newNode),
               !.branches = branches1, !.activeNodeId = newNodeId]

\* mutant: stepNumber counted from the branch's length, not from the parent
InsertNode_StepFromBranchLength(t, newNodeId, type, time) ==
  LET activeNode == t.nodes[t.activeNodeId]
      activeBranch == t.branches[t.activeBranchId]
      newNode == [id |-> newNodeId, timestamp |-> time, type |-> type,
                  parentId |-> activeNode.id, childrenIds |-> <<>>,
                  branchId |-> t.activeBranchId,
                  stepNumber |-> Len(activeBranch.nodeIds) + 1]
      nodes1 == MapSet(t.nodes, activeNode.id,
                       [activeNode EXCEPT !.childrenIds = Append(@, newNodeId)])
      nodes2 == MapSet(nodes1, newNodeId, newNode)
      branches1 == MapSet(t.branches, activeBranch.id,
                          [activeBranch EXCEPT !.nodeIds = Append(@, newNodeId)])
  IN [t EXCEPT !.nodes = nodes2, !.branches = branches1,
               !.activeNodeId = newNodeId]

\* mutant: the new node is not pushed to the active branch's nodeIds
InsertNode_NotListed(t, newNodeId, type, time) ==
  LET activeNode == t.nodes[t.activeNodeId]
      newNode == [id |-> newNodeId, timestamp |-> time, type |-> type,
                  parentId |-> activeNode.id, childrenIds |-> <<>>,
                  branchId |-> t.activeBranchId,
                  stepNumber |-> activeNode.stepNumber + 1]
      nodes1 == MapSet(t.nodes, activeNode.id,
                       [activeNode EXCEPT !.childrenIds = Append(@, newNodeId)])
      nodes2 == MapSet(nodes1, newNodeId, newNode)
  IN [t EXCEPT !.nodes = nodes2, !.activeNodeId = newNodeId]

\* mutant: the new node is made its own parent
InsertNode_SelfParent(t, newNodeId, type, time) ==
  LET activeNode == t.nodes[t.activeNodeId]
      activeBranch == t.branches[t.activeBranchId]
      newNode == [id |-> newNodeId, timestamp |-> time, type |-> type,
                  parentId |-> newNodeId, childrenIds |-> <<>>,
                  branchId |-> t.activeBranchId,
                  stepNumber |-> activeNode.stepNumber + 1]
      nodes1 == MapSet(t.nodes, activeNode.id,
                       [activeNode EXCEPT !.childrenIds = Append(@, newNodeId)])
      nodes2 == MapSet(nodes1, newNodeId, newNode)
      branches1 == MapSet(t.branches, activeBranch.id,
                          [activeBranch EXCEPT !.nodeIds = Append(@, newNodeId)])
  IN [t EXCEPT !.nodes = nodes2, !.branches = branches1,
               !.activeNodeId = newNodeId]

\* mutant: the new child is put first in its parent's children (unshift)
InsertNode_ChildFirst(t, newNodeId, type, time) ==
  LET activeNode == t.nodes[t.activeNodeId]
      activeBranch == t.branches[t.activeBranchId]
      newNode == [id |-> newNodeId, timestamp |-> time, type |-> type,
                  parentId |-> activeNode.id, childrenIds |-> <<>>,
                  branchId |-> t.activeBranchId,
                  stepNumber |-> activeNode.stepNumber + 1]
      nodes1 == MapSet(t.nodes, activeNode.id,
                       [activeNode EXCEPT !.childrenIds = <<newNodeId>> \o @])
      nodes2 == MapSet(nodes1, newNodeId, newNode)
      branches1 == MapSet(t.branches, activeBranch.id,
                          [activeBranch EXCEPT !.nodeIds = Append(@, newNodeId)])
  IN [t EXCEPT !.nodes = nodes2, !.branches = branches1,
               !.activeNodeId = newNodeId]

InsertNode(t, newNodeId, type, time) ==
  LET activeNode == t.nodes[t.activeNodeId]
      activeBranch == t.branches[t.activeBranchId]
      newNode == [id |-> newNodeId, timestamp |-> time, type |-> type,
                  parentId |-> activeNode.id, childrenIds |-> <<>>,
                  branchId |-> t.activeBranchId,
                  stepNumber |-> activeNode.stepNumber + 1]
      nodes1 == MapSet(t.nodes, activeNode.id,
                       [activeNode EXCEPT !.childrenIds = Append(@, newNodeId)])
      nodes2 == MapSet(nodes1, newNodeId, newNode)
      branches1 == MapSet(t.branches, activeBranch.id,
                          [activeBranch EXCEPT !.nodeIds = Append(@, newNodeId)])
  IN [t EXCEPT !.nodes = nodes2, !.branches = branches1,
               !.activeNodeId = newNodeId]

CanAddNode(p) ==
  /\ Has(timelines, p)
  /\ Has(timelines[p].branches, timelines[p].activeBranchId)
  /\ Has(timelines[p].nodes, timelines[p].activeNodeId)

addNode(p, type) ==
  IF CanAddNode(p)
  THEN /\ uuid + 1 <= MaxUuid
       /\ LET t1 == InsertNode(timelines[p], uuid + 1, type, now)
              t2 == createAutoCheckpointIfNeeded(t1, now)
          IN /\ timelines' = MapSet(timelines, p, t2)
             /\ cpCursor' = IF AutoCheckpointDue(t1, now)
                            THEN [cpCursor EXCEPT ![p] = MapSet(@, AutoName(now),
                                      <<t1.activeNodeId, t1.activeBranchId>>)]
                            ELSE cpCursor
             /\ autoAt' = IF AutoCheckpointDue(t1, now)
                          THEN [autoAt EXCEPT ![p] = now]
                          ELSE autoAt
       /\ uuid' = uuid + 1
       /\ last' = Call("addNode", p, Undefined, "", TRUE, uuid + 1, <<>>)
       /\ UNCHANGED <<now, appVars>>
  ELSE /\ last' = Call("addNode", p, Undefined, "", FALSE, Undefined, <<>>)
       /\ UNCHANGED <<timelines, uuid, now, cpCursor, autoAt, appVars>>

\* --------------------------------------------------------- navigateToNode
CanNavigate(ts, p, nodeId) ==
  /\ Has(ts, p)
  /\ Has(ts[p].nodes, nodeId)
  /\ Has(ts[p].branches, ts[p].nodes[nodeId].branchId)

\* mutant: the cursor's node moves, its branch does not follow
MoveCursor_NodeOnly(t, nodeId) == [t EXCEPT !.activeNodeId = nodeId]

MoveCursor(t, nodeId) ==
  [t EXCEPT !.activeNodeId = nodeId, !.activeBranchId = t.nodes[nodeId].branchId]

\* mutant: the target node is not looked up before the cursor is moved
navigateToNodeIn_NoNodeCheck(ts, p, nodeId) ==
  IF Has(ts, p)
  THEN [timelines |-> MapSet(ts, p, [ts[p] EXCEPT !.activeNodeId = nodeId]),
        ok |-> TRUE]
  ELSE [timelines |-> ts, ok |-> FALSE]

\* the state change and the return value of navigateToNode(p, nodeId)
navigateToNodeIn(ts, p, nodeId) ==
  IF CanNavigate(ts, p, nodeId)
  THEN [timelines |-> MapSet(ts, p, MoveCursor(ts[p], nodeId)), ok |-> TRUE]
  ELSE [timelines |-> ts, ok |-> FALSE]

navigateToNode(p, nodeId) ==
  LET r == navigateToNodeIn(timelines, p, nodeId)
  IN /\ timelines' = r.timelines
     /\ last' = Call("navigateToNode", p, nodeId, "", r.ok, Undefined, <<>>)
     /\ UNCHANGED <<uuid, now, cpCursor, autoAt, appVars>>

\* ----------------------------------------------------------- createBranch
EffectiveMaxBranches ==
  IF maxBranches # 0 THEN maxBranches ELSE DefaultMaxBranches

\* mutant: the limit test is off by one (> for >=)
BranchLimitReached_OffByOne(t) ==
  Cardinality(DOMAIN t.branches) > EffectiveMaxBranches

BranchLimitReached(t) == Cardinality(DOMAIN t.branches) >= EffectiveMaxBranches

\* mutant: the other branches are not deactivated
ForkBranch_KeepsOthersActive(t, newBranchId) ==
  LET activeNode == t.nodes[t.activeNodeId]
      newBranch == [id |-> newBranchId, nodeIds |-> <<activeNode.id>>,
                    isActive |-> TRUE, parentBranchId |-> activeNode.branchId,
                    branchPoint |-> activeNode.id]
  IN [t EXCEPT !.branches = MapSet(t.branches, newBranchId, newBranch),
               !.activeBranchId = newBranchId]

\* mutant: the new branch starts with an empty node list
ForkBranch_EmptyNodeIds(t, newBranchId) ==
  LET activeNode == t.nodes[t.activeNodeId]
      newBranch == [id |-> newBranchId, nodeIds |-> <<>>,
                    isActive |-> TRUE, parentBranchId |-> activeNode.branchId,
                    branchPoint |-> activeNode.id]
      branches1 == MapSet(t.branches, newBranchId, newBranch)
      branches2 == [b \in DOMAIN branches1 |->
                      IF b # newBranchId
                      THEN [branches1[b] EXCEPT !.isActive = FALSE]
                      ELSE branches1[b]]
  IN [t EXCEPT !.branches = branches2, !.activeBranchId = newBranchId]

ForkBranch(t, newBranchId) ==
  LET activeNode == t.nodes[t.activeNodeId]
      newBranch == [id |-> newBranchId, nodeIds |-> <<activeNode.id>>,
                    isActive |-> TRUE, parentBranchId |-> activeNode.branchId,
                    branchPoint |-> activeNode.id]
      branches1 == MapSet(t.branches, newBranchId, newBranch)
      branches2 == [b \in DOMAIN branches1 |->
                      IF b # newBranchId
                      THEN [branches1[b] EXCEPT !.isActive = FALSE]
                      ELSE branches1[b]]
  IN [t EXCEPT !.branches = branches2, !.activeBranchId = newBranchId]

CanCreateBranch(p) ==
  /\ Has(timelines, p)
  /\ Has(timelines[p].nodes, timelines[p].activeNodeId)
  /\ ~BranchLimitReached(timelines[p])

createBranch(p) ==
  IF CanCreateBranch(p)
  THEN /\ uuid + 1 <= MaxUuid
       /\ timelines' = MapSet(timelines, p, ForkBranch(timelines[p], uuid + 1))
       /\ uuid' = uuid + 1
       /\ last' = Call("createBranch", p, Undefined, "", TRUE, uuid + 1, <<>>)
       /\ UNCHANGED <<now, cpCursor, autoAt, appVars>>
  ELSE /\ last' = Call("createBranch", p, Undefined, "", FALSE, Undefined, <<>>)
       /\ UNCHANGED <<timelines, uuid, now, cpCursor, autoAt, appVars>>

\* ------------------------------------------------------------ checkpoints
createCheckpoint(p, checkpointName) ==
  IF Has(timelines, p)
  THEN /\ timelines' = MapSet(timelines, p,
                              createCheckpointIn(timelines[p], checkpointName))
       /\ cpCursor' = [cpCursor EXCEPT ![p] = MapSet(@, checkpointName,
                         <<timelines[p].activeNodeId, timelines[p].activeBranchId>>)]
       /\ last' = Call("createCheckpoint", p, Undefined, checkpointName, TRUE,
                       Undefined, <<>>)
       /\ UNCHANGED <<uuid, now, autoAt, appVars>>
  ELSE /\ last' = Call("createCheckpoint", p, Undefined, checkpointName, FALSE,
                       Undefined, <<>>)
       /\ UNCHANGED <<timelines, uuid, now, cpCursor, autoAt, appVars>>

CheckpointKnown(p, checkpointName) ==
  /\ Has(timelines, p)
  /\ Has(timelines[p].checkpoints, checkpointName)
  /\ timelines[p].checkpoints[checkpointName] # Undefined

navigateToCheckpoint(p, checkpointName) ==
  IF CheckpointKnown(p, checkpointName)
  THEN LET r == navigateToNodeIn(timelines, p,
                                 timelines[p].checkpoints[checkpointName])
       IN /\ timelines' = r.timelines
          /\ last' = Call("navigateToCheckpoint", p, Undefined, checkpointName,
                          r.ok, Undefined, <<>>)
          /\ UNCHANGED <<uuid, now, cpCursor, autoAt, appVars>>
  ELSE /\ last' = Call("navigateToCheckpoint", p, Undefined, checkpointName,
                       FALSE, Undefined, <<>>)
       /\ UNCHANGED <<timelines, uuid, now, cpCursor, autoAt, appVars>>

\* --------------------------------------------------------- getCurrentPath
\* mutant: path.push for path.unshift, so the walk is returned leaf first
RECURSIVE WalkUp_Push(_, _, _, _)
WalkUp_Push(t, currentNodeId, path, fuel) ==
  IF currentNodeId = Undefined THEN [path |-> path, done |-> TRUE]
  ELSE IF fuel = 0 THEN [path |-> path, done |-> FALSE]
  ELSE IF ~Has(t.nodes, currentNodeId) THEN [path |-> path, done |-> TRUE]
  ELSE LET currentNode == t.nodes[currentNodeId]
           path1 == path \o <<currentNode.id>>
       IN IF currentNode.parentId = Undefined
          THEN [path |-> path1, done |-> TRUE]
          ELSE WalkUp_Push(t, currentNode.parentId, path1, fuel - 1)

\* The while loop of getCurrentPath; fuel counts the iterations left, one
\* more than there are nodes, so done = FALSE means the walk entered a cycle.
RECURSIVE WalkUp(_, _, _, _)
WalkUp(t, currentNodeId, path, fuel) ==
  IF currentNodeId = Undefined THEN [path |-> path, done |-> TRUE]
  ELSE IF fuel = 0 THEN [path |-> path, done |-> FALSE]
  ELSE IF ~Has(t.nodes, currentNodeId) THEN [path |-> path, done |-> TRUE]
  ELSE LET currentNode == t.nodes[currentNodeId]
           path1 == <<currentNode.id>> \o path
       IN IF currentNode.parentId = Undefined
          THEN [path |-> path1, done |-> TRUE]
          ELSE WalkUp(t, currentNode.parentId, path1, fuel - 1)

CurrentPath(ts, p) ==
  IF ~Has(ts, p) THEN [path |-> <<>>, done |-> TRUE]
  ELSE WalkUp(ts[p], ts[p].activeNodeId, <<>>,
              Cardinality(DOMAIN ts[p].nodes) + 1)

getCurrentPath(p) ==
  /\ last' = Call("getCurrentPath", p, Undefined, "", CurrentPath(timelines, p).done,
                  Undefined, CurrentPath(timelines, p).path)
  /\ UNCHANGED <<timelines, uuid, now, cpCursor, autoAt, appVars>>

\* --------------------------------------------------- findPathBetweenNodes
\* One iteration of the BFS loop per call: queue holds {nodeId, path}
\* entries (paths as node ids), fuel the iterations left (every node is
\* expanded at most once and pushes at most |nodes| entries, so running out
\* of |nodes| * |nodes| + 1 iterations means the loop does not end).
RECURSIVE Bfs_ChildrenOnly(_, _, _, _, _)
Bfs_ChildrenOnly(t, queue, visited, endNodeId, fuel) ==
  IF queue = <<>> THEN [found |-> FALSE, path |-> <<>>, done |-> TRUE]
  ELSE IF fuel = 0 THEN [found |-> FALSE, path |-> <<>>, done |-> FALSE]
  ELSE LET nodeId == Head(queue).nodeId
           path == Head(queue).path
           rest == Tail(queue)
       IN IF nodeId \in visited \/ ~Has(t.nodes, nodeId)
          THEN Bfs_ChildrenOnly(t, rest, visited \cup {nodeId}, endNodeId, fuel - 1)
          ELSE LET node == t.nodes[nodeId]
                   newPath == Append(path, node.id)
                   children == [i \in 1..Len(node.childrenIds) |->
                                  [nodeId |-> node.childrenIds[i], path |-> newPath]]
               IN IF nodeId = endNodeId
                  THEN [found |-> TRUE, path |-> newPath, done |-> TRUE]
                  ELSE Bfs_ChildrenOnly(t, rest \o children, visited \cup {nodeId},
                                        endNodeId, fuel - 1)

RECURSIVE Bfs(_, _, _, _, _)
Bfs(t, queue, visited, endNodeId, fuel) ==
  IF queue = <<>> THEN [found |-> FALSE, path |-> <<>>, done |-> TRUE]
  ELSE IF fuel = 0 THEN [found |-> FALSE, path |-> <<>>, done |-> FALSE]
  ELSE LET nodeId == Head(queue).nodeId
           path == Head(queue).path
           rest == Tail(queue)
       IN IF nodeId \in visited THEN Bfs(t, rest, visited, endNodeId, fuel - 1)
          ELSE IF ~Has(t.nodes, nodeId)
          THEN Bfs(t, rest, visited \cup {nodeId}, endNodeId, fuel - 1)
          ELSE LET node == t.nodes[nodeId]
                   visited1 == visited \cup {nodeId}
                   newPath == Append(path, node.id)
                   children == [i \in 1..Len(node.childrenIds) |->
                                  [nodeId |-> node.childrenIds[i], path |-> newPath]]
                   parent == IF node.parentId # Undefined /\ node.parentId \notin visited1
                             THEN <<[nodeId |-> node.parentId, path |-> newPath]>>
                             ELSE <<>>
               IN IF nodeId = endNodeId
                  THEN [found |-> TRUE, path |-> newPath, done |-> TRUE]
                  ELSE Bfs(t, rest \o children \o parent, visited1, endNodeId, fuel - 1)

findPathBetweenNodes(t, startNodeId, endNodeId) ==
  Bfs(t, <<[nodeId |-> startNodeId, path |-> <<>>]>>, {}, endNodeId,
      Cardinality(DOMAIN t.nodes) * Cardinality(DOMAIN t.nodes) + 1)

\* ------------------------------------------------------ getChangesSummary
NoChanges(nodes) ==
  [isNull |-> FALSE, decisions |-> 0, codeChanges |-> 0, planUpdates |-> 0,
   userEdits |-> 0, explanations |-> 0, alternatives |-> 0, nodes |-> nodes]

NullSummary == [NoChanges(<<>>) EXCEPT !.isNull = TRUE]

\* the switch on node.type
CountChange(changes, type) ==
  CASE type = "decision" -> [changes EXCEPT !.decisions = @ + 1]
    [] type = "code" -> [changes EXCEPT !.codeChanges = @ + 1]
    [] type = "plan" -> [changes EXCEPT !.planUpdates = @ + 1]
    [] type = "user-edit" -> [changes EXCEPT !.userEdits = @ + 1]
    [] type = "explanation" -> [changes EXCEPT !.explanations = @ + 1]
    [] type = "alternative" -> [changes EXCEPT !.alternatives = @ + 1]
    [] OTHER -> changes

\* the for loop over pathToEnd.slice(1)
RECURSIVE TallyChanges(_, _, _)
TallyChanges(t, nodes, changes) ==
  IF nodes = <<>> THEN changes
  ELSE TallyChanges(t, Tail(nodes), CountChange(changes, t.nodes[Head(nodes)].type))

ChangesSummary_CountsStart(ts, p, startNodeId, endNodeId) ==
  IF ~Has(ts, p) THEN NullSummary
  ELSE IF ~Has(ts[p].nodes, startNodeId) \/ ~Has(ts[p].nodes, endNodeId)
  THEN NullSummary
  ELSE LET pathToEnd == findPathBetweenNodes(ts[p], startNodeId, endNodeId)
       IN IF ~pathToEnd.found THEN NullSummary
          ELSE TallyChanges(ts[p], pathToEnd.path, NoChanges(Tail(pathToEnd.path)))

ChangesSummary(ts, p, startNodeId, endNodeId) ==
  IF ~Has(ts, p) THEN NullSummary
  ELSE IF ~Has(ts[p].nodes, startNodeId) \/ ~Has(ts[p].nodes, endNodeId)
  THEN NullSummary
  ELSE LET pathToEnd == findPathBetweenNodes(ts[p], startNodeId, endNodeId)
       IN IF ~pathToEnd.found THEN NullSummary
          ELSE TallyChanges(ts[p], Tail(pathToEnd.path), NoChanges(Tail(pathToEnd.path)))

getChangesSummary(p, startNodeId, endNodeId) ==
  /\ last' = Call("getChangesSummary", p, Undefined, "",
                  ~ChangesSummary(timelines, p, startNodeId, endNodeId).isNull,
                  Undefined, <<>>)
  /\ UNCHANGED <<timelines, uuid, now, cpCursor, autoAt, appVars>>

\* ---------------------------------------------------- getAlternativePaths
\* The while loop of buildPathFromNode, with fuel as in WalkUp.
RECURSIVE WalkDown_LastChild(_, _, _, _)
WalkDown_LastChild(t, currentNodeId, path, fuel) ==
  IF currentNodeId = Undefined THEN [path |-> path, done |-> TRUE]
  ELSE IF fuel = 0 THEN [path |-> path, done |-> FALSE]
  ELSE IF ~Has(t.nodes, currentNodeId) THEN [path |-> path, done |-> TRUE]
  ELSE LET currentNode == t.nodes[currentNodeId]
           path1 == Append(path, currentNode.id)
       IN IF Len(currentNode.childrenIds) = 0
          THEN [path |-> path1, done |-> TRUE]
          ELSE WalkDown_LastChild(t, currentNode.childrenIds[Len(currentNode.childrenIds)],
                                  path1, fuel - 1)

RECURSIVE WalkDown(_, _, _, _)
WalkDown(t, currentNodeId, path, fuel) ==
  IF currentNodeId = Undefined THEN [path |-> path, done |-> TRUE]
  ELSE IF fuel = 0 THEN [path |-> path, done |-> FALSE]
  ELSE IF ~Has(t.nodes, currentNodeId) THEN [path |-> path, done |-> TRUE]
  ELSE LET currentNode == t.nodes[currentNodeId]
           path1 == Append(path, currentNode.id)
       IN IF Len(currentNode.childrenIds) = 0
          THEN [path |-> path1, done |-> TRUE]
          ELSE WalkDown(t, currentNode.childrenIds[1], path1, fuel - 1)

buildPathFromNode(t, startNodeId) ==
  WalkDown(t, startNodeId, <<>>, Cardinality(DOMAIN t.nodes) + 1)

NonEmpty(path) == Len(path) > 0

AlternativePaths(ts, p, nodeId) ==
  IF ~Has(ts, p) THEN <<>>
  ELSE IF ~Has(ts[p].nodes, nodeId) THEN <<>>
  ELSE LET childrenIds == ts[p].nodes[nodeId].childrenIds
       IN SelectSeq([i \in 1..Len(childrenIds) |->
                       buildPathFromNode(ts[p], childrenIds[i]).path],
                    NonEmpty)

getAlternativePaths(p, nodeId) ==
  /\ last' = Call("getAlternativePaths", p, nodeId, "", TRUE, Undefined,
                  AlternativePaths(timelines, p, nodeId))
  /\ UNCHANGED <<timelines, uuid, now, cpCursor, autoAt, appVars>>

\* --------------------------------------------------- getVisualizationData
\* Array.from(map.values()): the keys in insertion order, which is the order
\* of the ids since uuidv4() is modelled by a counter
RECURSIVE InOrder(_)
InOrder(S) ==
  IF S = {} THEN <<>>
  ELSE LET k == CHOOSE x \in S : \A y \in S : x <= y
       IN <<k>> \o InOrder(S \ {k})

\* the nested for loops that push one edge per child of every node
RECURSIVE EdgesOf(_, _)
EdgesOf(t, ids) ==
  IF ids = <<>> THEN <<>>
  ELSE LET node == t.nodes[Head(ids)]
       IN [i \in 1..Len(node.childrenIds) |->
             [source |-> node.id, target |-> node.childrenIds[i]]]
          \o EdgesOf(t, Tail(ids))

VizNodes(t) ==
  LET ids == InOrder(DOMAIN t.nodes)
  IN [i \in 1..Len(ids) |->
        [id |-> t.nodes[ids[i]].id, type |-> t.nodes[ids[i]].type,
         branchId |-> t.nodes[ids[i]].branchId,
         stepNumber |-> t.nodes[ids[i]].stepNumber,
         isActive |-> t.nodes[ids[i]].id = t.activeNodeId]]

\* mutant: a branch entry copies the stored isActive flag
VizBranches_StoredFlag(t) ==
  LET ids == InOrder(DOMAIN t.branches)
  IN [i \in 1..Len(ids) |->
        [id |-> t.branches[ids[i]].id,
         isActive |-> t.branches[ids[i]].isActive,
         parentBranchId |-> t.branches[ids[i]].parentBranchId]]

VizBranches(t) ==
  LET ids == InOrder(DOMAIN t.branches)
  IN [i \in 1..Len(ids) |->
        [id |-> t.branches[ids[i]].id,
         isActive |-> t.branches[ids[i]].id = t.activeBranchId,
         parentBranchId |-> t.branches[ids[i]].parentBranchId]]

VisualizationData(ts, p) ==
  IF ~Has(ts, p)
  THEN [isNull |-> TRUE, nodes |-> <<>>, edges |-> <<>>, branches |-> <<>>]
  ELSE [isNull |-> FALSE, nodes |-> VizNodes(ts[p]),
        edges |-> EdgesOf(ts[p], InOrder(DOMAIN ts[p].nodes)),
        branches |-> VizBranches(ts[p])]

getVisualizationData(p) ==
  /\ last' = Call("getVisualizationData", p, Undefined, "",
                  ~VisualizationData(timelines, p).isNull, Undefined, <<>>)
  /\ UNCHANGED <<timelines, uuid, now, cpCursor, autoAt, appVars>>

\* ---------------------------------------------------------------- clock
TickTo(end) ==
  /\ now < end
  /\ now' = now + MsPerMinute
  /\ UNCHANGED <<timelines, uuid, last, cpCursor, autoAt, appVars>>

Tick == TickTo((MaxClock + 1) * MsPerMinute)

\* ==================================================================== App
\* The plan handlers of the App component.  A handler started by a click
\* runs to its end or to its first await as one action and reads the state
\* of the latest render; the code after an await runs as a later action and
\* still reads the state its closure captured when the handler was created.
\* While the edit dialog is open its overlay covers the page, so only the
\* dialog's own controls are clicked.
PlanSteps == 2          \* number of steps in the plan the backend returns
MaxInFlight == 1        \* executeStep calls started by hand and not yet answered

UserInputs == {" ", "app"}     \* what the user types into the description box
Texts == {"", "T"}             \* what the user types into the dialog's fields
Codes == {1, 2}                \* data.code values the backend returns
Trim(str) == IF str = " " THEN "" ELSE str      \* String.prototype.trim

NoCode == 0             \* step.code undefined; also the editor's initial text
NoStepId == 0           \* currentStep null

\* data.plan with completed: false added to every step
PlanFromBackend ==
  [i \in 1..PlanSteps |->
     [id |-> i, title |-> "plan", description |-> "plan",
      completed |-> FALSE, code |-> NoCode]]

StepIds(ss) == {ss[i].id : i \in 1..Len(ss)}

\* history only: a user action while an Auto Run is under way
Interfere(run) ==
  IF run.pc \in {"await", "timer"} THEN [run EXCEPT !.clean = FALSE] ELSE run

setUserInput(v) ==
  /\ ~isEditStepOpen
  /\ userInput' = v
  /\ autoRun' = Interfere(autoRun)
  /\ UNCHANGED <<steps, currentStep, code, isGeneratingPlan, isEditStepOpen,
                 editingStep, newStepTitle, newStepDescription, inFlight, opener>>
  /\ UNCHANGED timelineVars

\* generatePlan up to its await
generatePlan ==
  /\ ~isEditStepOpen
  /\ ~isGeneratingPlan
  /\ isGeneratingPlan' = (Trim(userInput) # "")
  /\ autoRun' = Interfere(autoRun)
  /\ UNCHANGED <<userInput, steps, currentStep, code, isEditStepOpen, editingStep,
                 newStepTitle, newStepDescription, inFlight, opener>>
  /\ UNCHANGED timelineVars

\* generatePlan after its await: the plan arrives or the call throws
generatePlanReturns(ok) ==
  /\ isGeneratingPlan
  /\ steps' = IF ok THEN PlanFromBackend ELSE steps
  /\ isGeneratingPlan' = FALSE
  /\ autoRun' = Interfere(autoRun)
  /\ UNCHANGED <<userInput, currentStep, code, isEditStepOpen, editingStep,
                 newStepTitle, newStepDescription, inFlight, opener>>
  /\ UNCHANGED timelineVars

\* steps.map(step => step.id === stepId ? {...step, completed: true, code} : step)
MarkCompleted(ss, stepId, c) ==
  [i \in 1..Len(ss) |->
     IF ss[i].id = stepId THEN [ss[i] EXCEPT !.completed = TRUE, !.code = c]
     ELSE ss[i]]

\* executeStep from a step's button, up to its await; the closure keeps steps
executeStep(i) ==
  /\ ~isEditStepOpen
  /\ i \in 1..Len(steps)
  /\ ~steps[i].completed
  /\ Len(inFlight) < MaxInFlight
  /\ currentStep' = steps[i].id
  /\ inFlight' = Append(inFlight, [stepId |-> steps[i].id, steps |-> steps])
  /\ autoRun' = Interfere(autoRun)
  /\ UNCHANGED <<userInput, steps, code, isGeneratingPlan, isEditStepOpen, editingStep,
                 newStepTitle, newStepDescription, opener>>
  /\ UNCHANGED timelineVars

\* executeStep after its await
executeStepReturns(success, c) ==
  /\ inFlight # <<>>
  /\ IF success
     THEN /\ steps' = MarkCompleted(Head(inFlight).steps, Head(inFlight).stepId, c)
          /\ code' = c
     ELSE UNCHANGED <<steps, code>>
  /\ inFlight' = Tail(inFlight)
  /\ autoRun' = Interfere(autoRun)
  /\ UNCHANGED <<userInput, currentStep, isGeneratingPlan, isEditStepOpen, editingStep,
                 newStepTitle, newStepDescription, opener>>
  /\ UNCHANGED timelineVars

\* ---------------------------------------------------------- executeAllSteps
\* runNextStep up to its end or to the await of executeStep; run.steps is the
\* steps array the closure captured, currentStepIndex its counter
RunNextStep(run) ==
  IF run.currentStepIndex >= Len(run.steps)
  THEN /\ autoRun' = [run EXCEPT !.pc = "done"]
       /\ UNCHANGED currentStep
  ELSE LET step == run.steps[run.currentStepIndex + 1]
       IN IF ~step.completed
          THEN /\ autoRun' = [run EXCEPT !.pc = "await"]
               /\ currentStep' = step.id
          ELSE /\ autoRun' = [run EXCEPT !.pc = "timer",
                                         !.currentStepIndex = @ + 1]
               /\ UNCHANGED currentStep

executeAllSteps ==
  /\ ~isEditStepOpen
  /\ autoRun.pc \in {"idle", "done"}
  /\ IF Len(steps) = 0
     THEN UNCHANGED <<autoRun, currentStep>>
     ELSE RunNextStep([pc |-> "timer", steps |-> steps, currentStepIndex |-> 0,
                       clean |-> TRUE, returned |-> EmptyMap])
  /\ UNCHANGED <<userInput, steps, code, isGeneratingPlan, isEditStepOpen, editingStep,
                 newStepTitle, newStepDescription, inFlight, opener>>
  /\ UNCHANGED timelineVars

\* the executeStep awaited by runNextStep returns; the run then counts on
\* and sets its timer
autoRunStepReturns(success, c) ==
  /\ autoRun.pc = "await"
  /\ LET stepId == autoRun.steps[autoRun.currentStepIndex + 1].id
     IN IF success
        THEN /\ steps' = MarkCompleted(autoRun.steps, stepId, c)
             /\ code' = c
             /\ autoRun' = [autoRun EXCEPT !.pc = "timer",
                                           !.currentStepIndex = @ + 1,
                                           !.returned = MapSet(@, stepId, c)]
        ELSE /\ UNCHANGED <<steps, code>>
             /\ autoRun' = [autoRun EXCEPT !.pc = "timer",
                                           !.currentStepIndex = @ + 1,
                                           !.clean = FALSE]
  /\ UNCHANGED <<userInput, currentStep, isGeneratingPlan, isEditStepOpen, editingStep,
                 newStepTitle, newStepDescription, inFlight, opener>>
  /\ UNCHANGED timelineVars

\* setTimeout(runNextStep, 2000) fires
autoRunTimer ==
  /\ autoRun.pc = "timer"
  /\ RunNextStep(autoRun)
  /\ UNCHANGED <<userInput, steps, code, isGeneratingPlan, isEditStepOpen, editingStep,
                 newStepTitle, newStepDescription, inFlight, opener>>
  /\ UNCHANGED timelineVars

\* ------------------------------------------------------------- the dialog
openEditStep(i) ==
  /\ ~isEditStepOpen
  /\ i \in 1..Len(steps)
  /\ editingStep' = <<steps[i]>>
  /\ newStepTitle' = steps[i].title
  /\ newStepDescription' = steps[i].description
  /\ isEditStepOpen' = TRUE
  /\ opener' = "openEditStep"
  /\ autoRun' = Interfere(autoRun)
  /\ UNCHANGED <<userInput, steps, currentStep, code, isGeneratingPlan, inFlight>>
  /\ UNCHANGED timelineVars

\* Math.max(...steps.map(step => step.id))
MaxId(ss) == CHOOSE m \in StepIds(ss) : \A x \in StepIds(ss) : x <= m

\* the Add Step button is rendered only while the plan has steps
addNewStep ==
  /\ ~isEditStepOpen
  /\ Len(steps) > 0
  /\ LET newId == IF Len(steps) > 0 THEN MaxId(steps) + 1 ELSE 1
     IN editingStep' = <<[id |-> newId, title |-> "", description |-> "",
                          completed |-> FALSE, code |-> NoCode]>>
  /\ newStepTitle' = ""
  /\ newStepDescription' = ""
  /\ isEditStepOpen' = TRUE
  /\ opener' = "addNewStep"
  /\ autoRun' = Interfere(autoRun)
  /\ UNCHANGED <<userInput, steps, currentStep, code, isGeneratingPlan, inFlight>>
  /\ UNCHANGED timelineVars

setNewStepTitle(v) ==
  /\ isEditStepOpen
  /\ newStepTitle' = v
  /\ autoRun' = Interfere(autoRun)
  /\ UNCHANGED <<userInput, steps, currentStep, code, isGeneratingPlan, isEditStepOpen,
                 editingStep, newStepDescription, inFlight, opener>>
  /\ UNCHANGED timelineVars

setNewStepDescription(v) ==
  /\ isEditStepOpen
  /\ newStepDescription' = v
  /\ autoRun' = Interfere(autoRun)
  /\ UNCHANGED <<userInput, steps, currentStep, code, isGeneratingPlan, isEditStepOpen,
                 editingStep, newStepTitle, inFlight, opener>>
  /\ UNCHANGED timelineVars

\* Cancel, the close button and the overlay
onEditStepClose ==
  /\ isEditStepOpen
  /\ isEditStepOpen' = FALSE
  /\ autoRun' = Interfere(autoRun)
  /\ UNCHANGED <<userInput, steps, currentStep, code, isGeneratingPlan, editingStep,
                 newStepTitle, newStepDescription, inFlight, opener>>
  /\ UNCHANGED timelineVars

saveEditedStep ==
  IF editingStep = <<>>
  THEN UNCHANGED <<steps, isEditStepOpen>>
  ELSE /\ steps' = [i \in 1..Len(steps) |->
                      IF steps[i].id = editingStep[1].id
                      THEN [steps[i] EXCEPT !.title = newStepTitle,
                                            !.description = newStepDescription]
                      ELSE steps[i]]
       /\ isEditStepOpen' = FALSE

saveNewStep ==
  IF editingStep = <<>> \/ newStepTitle = "" \/ newStepDescription = ""
  THEN UNCHANGED <<steps, isEditStepOpen>>
  ELSE /\ steps' = Append(steps, [editingStep[1] EXCEPT
                                    !.title = newStepTitle,
                                    !.description = newStepDescription])
       /\ isEditStepOpen' = FALSE

\* the dialog's Save button:
\* onClick={editingStep && editingStep.id ? saveEditedStep : saveNewStep}
clickSave ==
  /\ isEditStepOpen
  /\ IF editingStep # <<>> /\ editingStep[1].id # 0
     THEN saveEditedStep
     ELSE saveNewStep
  /\ autoRun' = Interfere(autoRun)
  /\ UNCHANGED <<userInput, currentStep, code, isGeneratingPlan, editingStep,
                 newStepTitle, newStepDescription, inFlight, opener>>
  /\ UNCHANGED timelineVars

deleteStep(i) ==
  /\ ~isEditStepOpen
  /\ i \in 1..Len(steps)
  /\ steps' = SelectSeq(steps, LAMBDA st : st.id # steps[i].id)
  /\ autoRun' = Interfere(autoRun)
  /\ UNCHANGED <<userInput, currentStep, code, isGeneratingPlan, isEditStepOpen,
                 editingStep, newStepTitle, newStepDescription, inFlight, opener>>
  /\ UNCHANGED timelineVars

\* the App as first rendered: no plan, nothing in flight, the dialog closed
NoRun == [pc |-> "idle", steps |-> <<>>, currentStepIndex |-> 0,
          clean |-> TRUE, returned |-> EmptyMap]

InitApp ==
  /\ userInput = ""
  /\ steps = <<>>
  /\ currentStep = NoStepId
  /\ code = NoCode
  /\ isGeneratingPlan = FALSE
  /\ isEditStepOpen = FALSE
  /\ editingStep = <<>>
  /\ newStepTitle = ""
  /\ newStepDescription = ""
  /\ autoRun = NoRun
  /\ inFlight = <<>>
  /\ opener = ""

Init ==
  /\ timelines = EmptyMap
  /\ uuid = 0
  /\ now = MsPerMinute
  /\ last = Call("new", "", Undefined, "", TRUE, Undefined, <<>>)
  /\ cpCursor = EmptyMap
  /\ autoAt = EmptyMap
  /\ InitApp

NodeIdInputs == 1..MaxUuid
CheckpointNames(p) == IF Has(timelines, p) THEN DOMAIN timelines[p].checkpoints ELSE {}

NextFor(Ps) ==
  \/ Tick
  \/ \E p \in Ps : createTimeline(p)
  \/ \E p \in Ps, type \in NodeTypes : addNode(p, type)
  \/ \E p \in Ps, nodeId \in NodeIdInputs : navigateToNode(p, nodeId)
  \/ \E p \in Ps : createBranch(p)
  \/ \E p \in Ps, name \in CheckpointInputs : createCheckpoint(p, name)
  \/ \E p \in Ps : \E name \in CheckpointNames(p) \cup {UnknownName} :
        navigateToCheckpoint(p, name)
  \/ \E p \in Ps : getCurrentPath(p)

Next == NextFor(Projects)

Spec == Init /\ [][Next]_vars

\* the same service used for two projects
MultiProjects == {"P1", "P2"}
NextMulti == NextFor(MultiProjects)
SpecMulti == Init /\ [][NextMulti]_vars

\* One project over a clock that runs one minute longer, with callers that
\* also pass a checkpoint name of the form createAutoCheckpointIfNeeded
\* generates.  The methods taken are those that write a timestamp or a
\* checkpoint, and navigateToNode, which reaches every cursor position.
ClockEnd == (MaxClock + 2) * MsPerMinute
ClockCheckpointInputs == CheckpointInputs \cup {AutoName((MaxClock + 1) * MsPerMinute)}

NextClock ==
  \/ TickTo(ClockEnd)
  \/ \E p \in Projects : createTimeline(p)
  \/ \E p \in Projects, type \in NodeTypes : addNode(p, type)
  \/ \E p \in Projects, nodeId \in NodeIdInputs : navigateToNode(p, nodeId)
  \/ \E p \in Projects, name \in ClockCheckpointInputs : createCheckpoint(p, name)

SpecClock == Init /\ [][NextClock]_vars

\* The queries over the histories one project can build, with nodes of
\* several kinds; the clock stands still and no checkpoint is written.
QueryNodeTypes ==
  {"decision", "code", "plan", "explanation", "alternative", "user-edit"}

NextQuery ==
  \/ \E p \in Projects : createTimeline(p)
  \/ \E p \in Projects, type \in QueryNodeTypes : addNode(p, type)
  \/ \E p \in Projects, nodeId \in NodeIdInputs : navigateToNode(p, nodeId)
  \/ \E p \in Projects : createBranch(p)
  \/ \E p \in Projects, startNodeId \in NodeIdInputs, endNodeId \in NodeIdInputs :
        getChangesSummary(p, startNodeId, endNodeId)
  \/ \E p \in Projects, nodeId \in NodeIdInputs : getAlternativePaths(p, nodeId)
  \/ \E p \in Projects : getVisualizationData(p)

SpecQuery == Init /\ [][NextQuery]_vars

\* The App's plan panel: the user asking for a plan, running steps one by
\* one or all at once and deleting steps, the backend answering either way,
\* the Auto Run timer.  The dialog stays closed.
NextAutoRun ==
  \/ \E v \in UserInputs : setUserInput(v)
  \/ generatePlan
  \/ \E ok \in BOOLEAN : generatePlanReturns(ok)
  \/ \E i \in 1..PlanSteps : executeStep(i)
  \/ \E success \in BOOLEAN, c \in Codes : executeStepReturns(success, c)
  \/ executeAllSteps
  \/ \E success \in BOOLEAN, c \in Codes : autoRunStepReturns(success, c)
  \/ autoRunTimer
  \/ \E i \in 1..PlanSteps : deleteStep(i)

SpecAutoRun == Init /\ [][NextAutoRun]_vars

\* The App's plan and its edit dialog: the user asking for a plan, opening
\* the dialog for an existing or a new step, typing, saving, cancelling and
\* deleting steps.  No step is executed.
NextDialog ==
  \/ \E v \in UserInputs : setUserInput(v)
  \/ generatePlan
  \/ \E ok \in BOOLEAN : generatePlanReturns(ok)
  \/ \E i \in 1..PlanSteps : openEditStep(i)
  \/ addNewStep
  \/ \E v \in Texts : setNewStepTitle(v)
  \/ \E v \in Texts : setNewStepDescription(v)
  \/ onEditStepClose
  \/ clickSave
  \/ \E i \in 1..PlanSteps : deleteStep(i)

SpecDialog == Init /\ [][NextDialog]_vars

\* ------------------------------------------------------ shared vocabulary
Range(s) == {s[i] : i \in DOMAIN s}
Occurrences(s, x) == Cardinality({i \in DOMAIN s : s[i] = x})
Live == DOMAIN timelines
ActiveFlagged(t) == {b \in DOMAIN t.branches : t.branches[b].isActive}
Called(op) == last.op = op /\ last.ok
Failed(op) == last.op = op /\ ~last.ok

\* C1: in every reachable state of every timeline exactly one branch has
\* isActive = TRUE, never zero and never two.
C1_ExactlyOneActiveBranch ==
  \A p \in Live : Cardinality(ActiveFlagged(timelines[p])) = 1

\* C1 witness: a timeline with two branches, the cursor moved by a
\* navigateToNode that succeeded after the second branch was created.
C1_Witness ==
  /\ Called("navigateToNode")
  /\ \E p \in Live : Cardinality(DOMAIN timelines[p].branches) >= 2

\* C2 (as claimed): the branch field of the active node is the active branch.
C2_ActiveNodeBranchIsActiveBranch ==
  \A p \in Live :
    LET t == timelines[p]
    IN Has(t.nodes, t.activeNodeId) /\ t.nodes[t.activeNodeId].branchId = t.activeBranchId

\* C3: the cursor is well-formed by list membership: activeBranchId names a
\* branch, activeNodeId names a node, and the node is listed in the branch.
C3_CursorWellFormed ==
  \A p \in Live :
    LET t == timelines[p]
    IN /\ Has(t.branches, t.activeBranchId)
       /\ Has(t.nodes, t.activeNodeId)
       /\ t.activeNodeId \in Range(t.branches[t.activeBranchId].nodeIds)

\* C3 witness: navigateToNode has just moved the cursor into a branch other
\* than the main branch, onto a node that is not the branch point.
C3_Witness ==
  /\ Called("navigateToNode")
  /\ \E p \in Live :
       LET t == timelines[p]
       IN /\ t.activeBranchId # t.mainBranchId
          /\ t.activeNodeId # t.branches[t.activeBranchId].branchPoint

\* C4: parent/child links are bidirectionally consistent: a node with
\* parentId p occurs exactly once in p's childrenIds, and every id in a
\* childrenIds list is an existing node whose parentId is that node.
C4_ParentChildConsistent ==
  \A p \in Live :
    LET t == timelines[p]
    IN /\ \A n \in DOMAIN t.nodes :
            t.nodes[n].parentId # Undefined =>
              /\ Has(t.nodes, t.nodes[n].parentId)
              /\ Occurrences(t.nodes[t.nodes[n].parentId].childrenIds, n) = 1
       /\ \A n \in DOMAIN t.nodes :
            \A c \in Range(t.nodes[n].childrenIds) :
              Has(t.nodes, c) /\ t.nodes[c].parentId = n

\* C4 witness: after an addNode, some node has two children (the cursor
\* was moved back before the second one was added).
C4_Witness ==
  /\ Called("addNode")
  /\ \E p \in Live : \E n \in DOMAIN timelines[p].nodes :
       Len(timelines[p].nodes[n].childrenIds) >= 2

\* C5 (as claimed): each node id occurs in the nodeIds list of exactly one
\* branch, and there exactly once.
C5_NodeListedOnce ==
  \A p \in Live :
    LET t == timelines[p]
    IN \A n \in DOMAIN t.nodes :
         /\ Cardinality({b \in DOMAIN t.branches : n \in Range(t.branches[b].nodeIds)}) = 1
         /\ \A b \in DOMAIN t.branches : Occurrences(t.branches[b].nodeIds, n) <= 1

\* C6: the node without a parent has stepNumber 1 and every other node has
\* its parent's stepNumber plus one, whatever branches the two belong to.
C6_StepNumberIsParentPlusOne ==
  \A p \in Live :
    LET t == timelines[p]
    IN \A n \in DOMAIN t.nodes :
         IF t.nodes[n].parentId = Undefined
         THEN t.nodes[n].stepNumber = 1
         ELSE /\ Has(t.nodes, t.nodes[n].parentId)
              /\ t.nodes[n].stepNumber = t.nodes[t.nodes[n].parentId].stepNumber + 1

\* C6 witness: addNode has added a node to a forked branch whose parent, the
\* branch point, belongs to another branch.
C6_Witness ==
  /\ Called("addNode")
  /\ \E p \in Live :
       LET t == timelines[p]
           n == t.nodes[t.activeNodeId]
       IN /\ n.parentId # Undefined
          /\ t.nodes[n.parentId].branchId # n.branchId

\* C7 (as claimed): along every branch's nodeIds list stepNumber is strictly
\* increasing.
C7_StepNumberIncreasesAlongBranch ==
  \A p \in Live :
    LET t == timelines[p]
    IN \A b \in DOMAIN t.branches :
         \A i, j \in DOMAIN t.branches[b].nodeIds :
           i < j => t.nodes[t.branches[b].nodeIds[i]].stepNumber
                      < t.nodes[t.branches[b].nodeIds[j]].stepNumber

\* what C8 asks of the sequence getCurrentPath returns in a state
PathIsRootToActive(t, r) ==
  /\ r.done
  /\ Len(r.path) = t.nodes[t.activeNodeId].stepNumber
  /\ t.nodes[r.path[1]].parentId = Undefined
  /\ r.path[Len(r.path)] = t.activeNodeId
  /\ \A i \in 1..(Len(r.path) - 1) : t.nodes[r.path[i + 1]].parentId = r.path[i]

\* C8: in every reachable state getCurrentPath terminates and returns the
\* chain from the parentless root to the active node, each element the
\* parent of the next, of length activeNode.stepNumber; and a call of
\* getCurrentPath leaves the timelines as they were, so that a second call
\* returns the same sequence.
C8_CurrentPath ==
  /\ [](\A p \in Live : PathIsRootToActive(timelines[p], CurrentPath(timelines, p)))
  /\ [][\A p \in Projects : getCurrentPath(p) =>
          /\ timelines' = timelines
          /\ CurrentPath(timelines', p) = CurrentPath(timelines, p)]_vars

\* C8 witness: getCurrentPath was called with the cursor three or more steps
\* from the root, on a timeline that also has a node off the path.
C8_Witness ==
  /\ Called("getCurrentPath")
  /\ \E p \in Live :
       /\ Len(CurrentPath(timelines, p).path) >= 3
       /\ Cardinality(DOMAIN timelines[p].nodes) > Len(CurrentPath(timelines, p).path)

\* C9 (as claimed): navigateToCheckpoint(x), for a name x that an earlier
\* createCheckpoint bound and nothing rebound since, returns true and leaves
\* activeNodeId and activeBranchId at the values they had when x was bound.
C9_CheckpointRoundTrip ==
  \A p \in Live :
    (last.op = "navigateToCheckpoint" /\ last.projectId = p
       /\ Has(cpCursor[p], last.name)) =>
      /\ last.ok
      /\ <<timelines[p].activeNodeId, timelines[p].activeBranchId>>
           = cpCursor[p][last.name]

\* C10: a timeline never holds more than maxBranches branches, and a
\* createBranch called on a timeline that already holds maxBranches of them
\* returns the failure value and changes nothing in any timeline.
C10_BranchLimit ==
  /\ [](\A p \in Live : Cardinality(DOMAIN timelines[p].branches) <= maxBranches)
  /\ [][\A p \in Projects :
          (/\ createBranch(p)
           /\ Has(timelines, p)
           /\ Cardinality(DOMAIN timelines[p].branches) >= maxBranches)
          => (~last'.ok /\ last'.op = "createBranch" /\ timelines' = timelines)]_vars

\* C10 witness: createBranch has just failed on a timeline that holds
\* maxBranches branches.
C10_Witness ==
  /\ Failed("createBranch")
  /\ \E p \in Live :
       /\ last.projectId = p
       /\ Cardinality(DOMAIN timelines[p].branches) = maxBranches
       /\ Has(timelines[p].nodes, timelines[p].activeNodeId)

\* C11: a successful createBranch in a state with active node a adds exactly
\* one branch b, with nodeIds = <<a>>, branchPoint = a, parentBranchId =
\* a.branchId (a branch that lists a) and isActive = TRUE; clears isActive on
\* every other branch; makes b the active branch; and leaves activeNodeId,
\* the nodes, the other branches' nodeIds and the checkpoints as they were.
C11_CreateBranchEffect ==
  [][\A p \in Projects :
       (createBranch(p) /\ last'.ok) =>
         LET t == timelines[p]
             t2 == timelines'[p]
             a == t.nodes[t.activeNodeId]
             added == DOMAIN t2.branches \ DOMAIN t.branches
         IN /\ DOMAIN t.branches \subseteq DOMAIN t2.branches
            /\ Cardinality(added) = 1
            /\ \A b \in added :
                 /\ t2.branches[b].id = b
                 /\ t2.branches[b].nodeIds = <<a.id>>
                 /\ t2.branches[b].branchPoint = a.id
                 /\ t2.branches[b].parentBranchId = a.branchId
                 /\ a.id \in Range(t.branches[a.branchId].nodeIds)
                 /\ t2.branches[b].isActive
                 /\ t2.activeBranchId = b
            /\ \A b \in DOMAIN t.branches :
                 /\ ~t2.branches[b].isActive
                 /\ t2.branches[b].nodeIds = t.branches[b].nodeIds
            /\ t2.activeNodeId = t.activeNodeId
            /\ t2.nodes = t.nodes
            /\ t2.checkpoints = t.checkpoints]_vars

\* C11 witness: createBranch has just forked a branch at a node with
\* stepNumber 2 that has a child of its own on the parent branch.
C11_Witness ==
  /\ Called("createBranch")
  /\ \E p \in Live :
       LET t == timelines[p]
       IN /\ t.branches[t.activeBranchId].nodeIds = <<t.activeNodeId>>
          /\ t.nodes[t.activeNodeId].stepNumber = 2
          /\ t.nodes[t.activeNodeId].childrenIds # <<>>

\* C12: navigateToNode(nodeId) on an existing node returns true, leaves the
\* cursor on nodeId and on that node's branch, and changes neither the
\* nodes, nor the set of branches and their nodeIds, nor the checkpoints.
C12_NavigateIsPureCursorMove ==
  [][\A p \in Projects, nodeId \in NodeIdInputs :
       (navigateToNode(p, nodeId) /\ Has(timelines, p)
          /\ Has(timelines[p].nodes, nodeId)) =>
         LET t == timelines[p]
             t2 == timelines'[p]
         IN /\ last'.ok
            /\ t2.activeNodeId = nodeId
            /\ t2.activeBranchId = t.nodes[nodeId].branchId
            /\ t2.nodes = t.nodes
            /\ DOMAIN t2.branches = DOMAIN t.branches
            /\ \A b \in DOMAIN t.branches :
                 t2.branches[b].nodeIds = t.branches[b].nodeIds
            /\ t2.checkpoints = t.checkpoints]_vars

\* C12 witness: navigateToNode has moved the cursor back to a node that has
\* a child, in a timeline with two branches, onto the branch that is not
\* flagged active.
C12_Witness ==
  /\ Called("navigateToNode")
  /\ \E p \in Live :
       LET t == timelines[p]
       IN /\ Cardinality(DOMAIN t.branches) >= 2
          /\ t.nodes[t.activeNodeId].childrenIds # <<>>
          /\ ~t.branches[t.activeBranchId].isActive

\* C14: a successful addNode with cursor (B, a) creates exactly one node n
\* with a fresh id, parentId = a, branchId = B, no children and stepNumber =
\* a.stepNumber + 1; appends n to a.childrenIds and to B.nodeIds; moves
\* activeNodeId to n; and leaves activeBranchId, every other node, every
\* other branch and all isActive flags as they were.
C14_AddNodeEffect ==
  [][\A p \in Projects, type \in NodeTypes :
       (addNode(p, type) /\ last'.ok) =>
         LET t == timelines[p]
             t2 == timelines'[p]
             a == t.nodes[t.activeNodeId]
             B == t.activeBranchId
             added == DOMAIN t2.nodes \ DOMAIN t.nodes
         IN /\ DOMAIN t.nodes \subseteq DOMAIN t2.nodes
            /\ Cardinality(added) = 1
            /\ \A n \in added :
                 /\ n \notin DOMAIN t.branches
                 /\ \A q \in Live \ {p} :
                      n \notin DOMAIN timelines[q].nodes \cup DOMAIN timelines[q].branches
                 /\ t2.nodes[n].id = n
                 /\ t2.nodes[n].parentId = a.id
                 /\ t2.nodes[n].branchId = B
                 /\ t2.nodes[n].childrenIds = <<>>
                 /\ t2.nodes[n].stepNumber = a.stepNumber + 1
                 /\ t2.nodes[n].type = type
                 /\ t2.nodes[a.id] = [a EXCEPT !.childrenIds = Append(@, n)]
                 /\ t2.branches[B].nodeIds = Append(t.branches[B].nodeIds, n)
                 /\ t2.activeNodeId = n
            /\ t2.activeBranchId = B
            /\ \A m \in DOMAIN t.nodes \ {a.id} : t2.nodes[m] = t.nodes[m]
            /\ DOMAIN t2.branches = DOMAIN t.branches
            /\ \A b \in DOMAIN t.branches \ {B} : t2.branches[b] = t.branches[b]
            /\ \A b \in DOMAIN t.branches :
                 t2.branches[b].isActive = t.branches[b].isActive]_vars

\* C14 witness: addNode has just added a second child to a node, on a
\* branch that lists other nodes before it.
C14_Witness ==
  /\ Called("addNode")
  /\ \E p \in Live :
       LET t == timelines[p]
           n == t.nodes[t.activeNodeId]
       IN /\ n.parentId # Undefined
          /\ Len(t.nodes[n.parentId].childrenIds) >= 2
          /\ t.nodes[n.parentId].childrenIds[Len(t.nodes[n.parentId].childrenIds)] = n.id
          /\ Len(t.branches[t.activeBranchId].nodeIds) >= 3

\* C15: after createTimeline(p), whether or not p had a timeline, p's
\* timeline has exactly the main branch (active, listing the root), exactly
\* the root node (type plan, stepNumber 1, no parent, no children, on the
\* main branch), the cursor on both, and the single checkpoint "initial"
\* bound to the root.
C15_CreateTimelineResult ==
  [][\A p \in Projects :
       createTimeline(p) =>
         /\ Has(timelines', p)
         /\ LET t2 == timelines'[p]
                m == t2.mainBranchId
                r == t2.activeNodeId
            IN /\ DOMAIN t2.branches = {m}
               /\ t2.branches[m].isActive
               /\ t2.branches[m].nodeIds = <<r>>
               /\ DOMAIN t2.nodes = {r}
               /\ t2.nodes[r].type = "plan"
               /\ t2.nodes[r].stepNumber = 1
               /\ t2.nodes[r].parentId = Undefined
               /\ t2.nodes[r].childrenIds = <<>>
               /\ t2.nodes[r].branchId = m
               /\ t2.activeBranchId = m
               /\ DOMAIN t2.checkpoints = {"initial"}
               /\ t2.checkpoints["initial"] = r
               /\ (Has(timelines, p) =>
                     /\ m \notin DOMAIN timelines[p].branches
                     /\ r \notin DOMAIN timelines[p].nodes)]_vars

\* C15 witness: createTimeline has just replaced a timeline (ids were
\* already handed out to an earlier one of the same project).
C15_Witness ==
  /\ Called("createTimeline")
  /\ \E p \in Live :
       /\ last.projectId = p
       /\ timelines[p].mainBranchId > 2
       /\ DOMAIN timelines[p].nodes = {timelines[p].activeNodeId}

\* what C13 asks of a failing call of op: the failure value, nothing changed
FailsCleanly(op) == last'.op = op /\ ~last'.ok /\ timelines' = timelines

\* C13: navigateToNode with an unknown node id and navigateToCheckpoint with
\* an unknown name return false and change nothing; addNode, navigateToNode,
\* createBranch, createCheckpoint and navigateToCheckpoint on a project
\* without a timeline return undefined / false, getCurrentPath returns the
\* empty sequence, and none of them creates a timeline or touches another
\* project's timeline.
C13_FailuresChangeNothing ==
  [][\A p \in MultiProjects :
       /\ last'.op = "navigateToNode" =>
            \A nodeId \in NodeIdInputs :
              (navigateToNode(p, nodeId)
                 /\ (~Has(timelines, p) \/ ~Has(timelines[p].nodes, nodeId)))
              => FailsCleanly("navigateToNode")
       /\ last'.op = "navigateToCheckpoint" =>
            \A name \in CheckpointNames(p) \cup {UnknownName} :
              (navigateToCheckpoint(p, name)
                 /\ (~Has(timelines, p) \/ ~Has(timelines[p].checkpoints, name)))
              => FailsCleanly("navigateToCheckpoint")
       /\ ~Has(timelines, p) =>
            /\ \A type \in NodeTypes : addNode(p, type) => FailsCleanly("addNode")
            /\ createBranch(p) => FailsCleanly("createBranch")
            /\ \A name \in CheckpointInputs :
                 createCheckpoint(p, name) => FailsCleanly("createCheckpoint")
            /\ getCurrentPath(p) =>
                 (CurrentPath(timelines, p).path = <<>> /\ timelines' = timelines)]_vars

\* C13 witness: createCheckpoint has just failed on a project that has no
\* timeline while the other project has one with several nodes.
C13_Witness ==
  /\ Failed("createCheckpoint")
  /\ last.projectId \notin Live
  /\ \E q \in Live : Cardinality(DOMAIN timelines[q].nodes) >= 2

\* the quantities C16 speaks of, in the state addNode is called in
SetMax(S) == CHOOSE x \in S : \A y \in S : y <= x
BoundTimes(t) == {t.nodes[t.checkpoints[n]].timestamp : n \in DOMAIN t.checkpoints}
ElapsedSinceCheckpoint(t) == now - SetMax(BoundTimes(t))
IntervalMs == autoCheckpointInterval * MsPerMinute
\* addNode bound the generated name to the node it inserted / left the map
AutoCheckpointWritten(t, t2) ==
  /\ t2.activeNodeId \notin DOMAIN t.nodes
  /\ t2.checkpoints = MapSet(t.checkpoints, AutoName(now), t2.activeNodeId)
CheckpointsKept(t, t2) == t2.checkpoints = t.checkpoints

\* C16 (as claimed): a successful addNode creates a checkpoint bound to the
\* node just inserted if and only if the time elapsed since the latest
\* checkpointed node exceeds the interval, and otherwise leaves the
\* checkpoint map unchanged.
C16_AutoCheckpointIffExceeds ==
  [][\A p \in Projects, type \in NodeTypes :
       (addNode(p, type) /\ last'.ok) =>
         IF ElapsedSinceCheckpoint(timelines[p]) > IntervalMs
         THEN AutoCheckpointWritten(timelines[p], timelines'[p])
         ELSE CheckpointsKept(timelines[p], timelines'[p])]_vars

\* C16 (amended): a successful addNode writes a checkpoint named after the
\* current time and bound to the node just inserted if and only if the time
\* elapsed since the latest checkpointed node is at least the (non-zero)
\* interval, and otherwise leaves the checkpoint map unchanged.
C16_AutoCheckpointIffAtLeast ==
  [][\A p \in Projects, type \in NodeTypes :
       (addNode(p, type) /\ last'.ok) =>
         IF ElapsedSinceCheckpoint(timelines[p]) >= IntervalMs
         THEN AutoCheckpointWritten(timelines[p], timelines'[p])
         ELSE CheckpointsKept(timelines[p], timelines'[p])]_vars

\* C16 witness: addNode has just written an automatic checkpoint for a node
\* inserted exactly one interval after the latest node that was
\* checkpointed before, in a timeline that also holds a user checkpoint.
C16_Witness ==
  /\ Called("addNode")
  /\ \E p \in Live :
       LET t == timelines[p]
           others == {t.nodes[t.checkpoints[n]].timestamp :
                        n \in DOMAIN t.checkpoints \ {AutoName(now)}}
       IN /\ Has(t.checkpoints, AutoName(now))
          /\ t.checkpoints[AutoName(now)] = t.activeNodeId
          /\ t.nodes[t.activeNodeId].timestamp = now
          /\ Has(t.checkpoints, "x")
          /\ SetMax(others) = now - IntervalMs

\* C17 (as claimed): every checkpoint name bound before an addNode is bound
\* to the same node after it.
C17_AddNodeKeepsCheckpoints ==
  [][\A p \in Projects, type \in NodeTypes :
       (addNode(p, type) /\ last'.ok) =>
         \A name \in DOMAIN timelines[p].checkpoints :
           /\ Has(timelines'[p].checkpoints, name)
           /\ timelines'[p].checkpoints[name] = timelines[p].checkpoints[name]]_vars

\* ------------------------------------------------------------------- C18
NoRepeats(path) ==
  \A i, j \in 1..Len(path) : path[i] = path[j] => i = j

\* path climbs parent by parent up to position k and from there descends
\* child by child
UpThenDown(t, path, k) ==
  /\ \A i \in 1..(k - 1) : t.nodes[path[i]].parentId = path[i + 1]
  /\ \A i \in k..(Len(path) - 1) :
       /\ t.nodes[path[i + 1]].parentId = path[i]
       /\ path[i + 1] \in Range(t.nodes[path[i]].childrenIds)

IsTreePath(t, path, startNodeId, endNodeId) ==
  /\ Len(path) >= 1
  /\ path[1] = startNodeId
  /\ path[Len(path)] = endNodeId
  /\ NoRepeats(path)
  /\ \E k \in 1..Len(path) : UpThenDown(t, path, k)

\* C18: for any two existing nodes s and e of a timeline,
\* findPathBetweenNodes(s, e) ends and returns a path from s to e without
\* repeated nodes whose consecutive nodes are parent and child: up from s
\* to the lowest common ancestor, then down to e.
C18_PathBetweenNodesIsTreePath ==
  \A p \in Live : \A s \in DOMAIN timelines[p].nodes : \A e \in DOMAIN timelines[p].nodes :
    LET r == findPathBetweenNodes(timelines[p], s, e)
    IN /\ r.done
       /\ r.found
       /\ IsTreePath(timelines[p], r.path, s, e)

\* a summary was asked for on a timeline where some path between two nodes
\* of different branches goes up at least one step and down at least one
C18_Witness ==
  /\ last.op = "getChangesSummary"
  /\ last.ok
  /\ \E p \in Live : \E s \in DOMAIN timelines[p].nodes : \E e \in DOMAIN timelines[p].nodes :
       LET t == timelines[p]
           r == findPathBetweenNodes(t, s, e)
       IN /\ r.found
          /\ t.nodes[s].branchId # t.nodes[e].branchId
          /\ \E k \in 2..(Len(r.path) - 1) : UpThenDown(t, r.path, k)

\* ------------------------------------------------------------------- C19
\* how many of the listed nodes are of the given kind
Listed(t, nodes, type) ==
  Cardinality({i \in 1..Len(nodes) : t.nodes[nodes[i]].type = type})

CounterTotal(r) ==
  r.decisions + r.codeChanges + r.planUpdates + r.userEdits
    + r.explanations + r.alternatives

\* C19: getChangesSummary(s, e) is null when s or e is not in the node
\* store; otherwise it lists the findPathBetweenNodes path without its start
\* node, each of the six counters is the number of listed nodes of that
\* kind, the counters add up to the path length minus one, and for s = e
\* the list is empty and every counter is 0.
C19_ChangesSummary ==
  \A p \in Live : \A s \in NodeIdInputs : \A e \in NodeIdInputs :
    LET t == timelines[p]
        r == ChangesSummary(timelines, p, s, e)
    IN IF ~Has(t.nodes, s) \/ ~Has(t.nodes, e) THEN r.isNull
       ELSE LET path == findPathBetweenNodes(t, s, e).path
            IN /\ ~r.isNull
               /\ r.nodes = Tail(path)
               /\ r.decisions = Listed(t, r.nodes, "decision")
               /\ r.codeChanges = Listed(t, r.nodes, "code")
               /\ r.planUpdates = Listed(t, r.nodes, "plan")
               /\ r.userEdits = Listed(t, r.nodes, "user-edit")
               /\ r.explanations = Listed(t, r.nodes, "explanation")
               /\ r.alternatives = Listed(t, r.nodes, "alternative")
               /\ CounterTotal(r) = Len(path) - 1
               /\ s = e => r.nodes = <<>> /\ CounterTotal(r) = 0

\* a summary was returned on a timeline where some summary lists three
\* nodes of three kinds, the root's kind among them, and another is null
C19_Witness ==
  /\ last.op = "getChangesSummary"
  /\ last.ok
  /\ \E p \in Live : \E s \in NodeIdInputs : \E e \in NodeIdInputs :
       LET r == ChangesSummary(timelines, p, s, e)
       IN /\ ~r.isNull
          /\ Len(r.nodes) = 3
          /\ r.planUpdates = 1 /\ r.userEdits = 1 /\ r.alternatives = 1
  /\ \E p \in Live : \E s \in NodeIdInputs : ChangesSummary(timelines, p, s, s).isNull

\* ------------------------------------------------------------------- C20
\* path starts at first, each next element is the first child of the one
\* before it, and the last element is a leaf
FirstChildDescent(t, path, first) ==
  /\ Len(path) >= 1
  /\ path[1] = first
  /\ \A j \in 1..(Len(path) - 1) :
       /\ Len(t.nodes[path[j]].childrenIds) > 0
       /\ path[j + 1] = t.nodes[path[j]].childrenIds[1]
  /\ t.nodes[path[Len(path)]].childrenIds = <<>>

\* C20: getAlternativePaths(n) returns one path per element of
\* n.childrenIds, in that order; path i starts at the i-th child, follows
\* the first child of each element and ends at a node without children.
\* For a node without children or an unknown node it returns the empty list.
C20_AlternativePaths ==
  \A p \in Live : \A n \in NodeIdInputs :
    LET t == timelines[p]
        r == AlternativePaths(timelines, p, n)
    IN IF ~Has(t.nodes, n) THEN r = <<>>
       ELSE /\ Len(r) = Len(t.nodes[n].childrenIds)
            /\ t.nodes[n].childrenIds = <<>> => r = <<>>
            /\ \A i \in 1..Len(r) :
                 /\ buildPathFromNode(t, t.nodes[n].childrenIds[i]).done
                 /\ FirstChildDescent(t, r[i], t.nodes[n].childrenIds[i])

\* alternative paths were asked for on a timeline where some node has two
\* children, the one created first with a child of its own, and where
\* another node has none
C20_Witness ==
  /\ last.op = "getAlternativePaths"
  /\ \E p \in Live : \E n \in NodeIdInputs :
       LET r == AlternativePaths(timelines, p, n)
       IN /\ Len(r) = 2
          /\ Len(r[1]) = 2
          /\ Len(r[2]) = 1
          /\ r[1][1] < r[2][1]
  /\ \E p \in Live : \E n \in DOMAIN timelines[p].nodes :
       AlternativePaths(timelines, p, n) = <<>>

\* ------------------------------------------------------------------- C21
IsPrefix(a, b) == Len(a) <= Len(b) /\ SubSeq(b, 1, Len(a)) = a

NodeKept(n, n2) ==
  /\ n2.id = n.id
  /\ n2.type = n.type
  /\ n2.timestamp = n.timestamp
  /\ n2.parentId = n.parentId
  /\ n2.branchId = n.branchId
  /\ n2.stepNumber = n.stepNumber
  /\ IsPrefix(n.childrenIds, n2.childrenIds)

BranchKept(b, b2) ==
  /\ b2.id = b.id
  /\ b2.parentBranchId = b.parentBranchId
  /\ b2.branchPoint = b.branchPoint
  /\ IsPrefix(b.nodeIds, b2.nodeIds)

\* C21: as long as createTimeline is not run again for the project, every
\* step keeps every node (its id, type, parentId, branchId and stepNumber
\* unchanged, its childrenIds extended at the end at most), keeps every
\* branch (parentBranchId and branchPoint unchanged, nodeIds extended at the
\* end at most) and keeps mainBranchId.
C21_HistoryIsAppendOnly ==
  [][\A p \in Projects :
       (Has(timelines, p) /\ ~createTimeline(p)) =>
         /\ Has(timelines', p)
         /\ LET t == timelines[p]
                t2 == timelines'[p]
            IN /\ t2.mainBranchId = t.mainBranchId
               /\ \A n \in DOMAIN t.nodes :
                    Has(t2.nodes, n) /\ NodeKept(t.nodes[n], t2.nodes[n])
               /\ \A b \in DOMAIN t.branches :
                    Has(t2.branches, b) /\ BranchKept(t.branches[b], t2.branches[b])]_vars

\* C21 witness: addNode has just given a second child to a node that is
\* listed in two branches, the second branch now listing two nodes.
C21_Witness ==
  /\ Called("addNode")
  /\ \E p \in Live :
       LET t == timelines[p]
           n == t.nodes[t.activeNodeId]
       IN /\ n.parentId # Undefined
          /\ Len(t.nodes[n.parentId].childrenIds) >= 2
          /\ t.activeBranchId # t.mainBranchId
          /\ t.branches[t.activeBranchId].nodeIds = <<n.parentId, n.id>>

\* ------------------------------------------------------------------- C22
\* the step is a call, successful or failing, of one of the six methods
\* with project p
InvokedWith(p) ==
  \/ createTimeline(p)
  \/ \E type \in NodeTypes : addNode(p, type)
  \/ \E nodeId \in NodeIdInputs : navigateToNode(p, nodeId)
  \/ createBranch(p)
  \/ \E name \in CheckpointInputs : createCheckpoint(p, name)
  \/ \E name \in CheckpointNames(p) \cup {UnknownName} : navigateToCheckpoint(p, name)

TimelineUntouched(q) ==
  /\ Has(timelines', q) <=> Has(timelines, q)
  /\ Has(timelines, q) => timelines'[q] = timelines[q]

\* C22: a call of createTimeline, addNode (with its automatic checkpoint),
\* navigateToNode, createBranch, createCheckpoint or navigateToCheckpoint
\* with project p, successful or failing, leaves the timeline of every
\* other project q as it was: nodes, branches, isActive flags, cursor and
\* checkpoints.
C22_ProjectsAreIndependent ==
  [][\A p \in MultiProjects : \A q \in MultiProjects \ {p} :
       (last'.projectId = p /\ InvokedWith(p)) => TimelineUntouched(q)]_vars

\* C22 witness: addNode on one project has just inserted a node and written
\* an automatic checkpoint for it while another project has a timeline.
C22_Witness ==
  /\ Called("addNode")
  /\ \E p \in Live : \E q \in Live \ {p} :
       /\ last.projectId = p
       /\ Has(timelines[p].checkpoints, AutoName(now))
       /\ timelines[p].checkpoints[AutoName(now)] = timelines[p].activeNodeId
       /\ timelines[p].nodes[timelines[p].activeNodeId].parentId # Undefined

\* ------------------------------------------------------------------- C23
\* the positions of the entries of a list that satisfy a test
ActiveEntries(entries) == {i \in 1..Len(entries) : entries[i].isActive}
EntriesWithId(entries, id) == {i \in 1..Len(entries) : entries[i].id = id}
EdgesBetween(edges, parent, child) ==
  {i \in 1..Len(edges) : edges[i].source = parent /\ edges[i].target = child}

\* C23: getVisualizationData returns one entry per stored node and one per
\* stored branch, exactly one node entry with isActive (the active node) and
\* one branch entry with isActive (the active branch), and exactly one edge
\* from parent to child per parent/child link and no other edge, so one edge
\* less than there are nodes; the call changes nothing in the timeline.
C23_VisualizationIsProjection ==
  /\ [](\A p \in Live :
          LET t == timelines[p]
              v == VisualizationData(timelines, p)
          IN /\ ~v.isNull
             /\ Len(v.nodes) = Cardinality(DOMAIN t.nodes)
             /\ \A n \in DOMAIN t.nodes : Cardinality(EntriesWithId(v.nodes, n)) = 1
             /\ Len(v.branches) = Cardinality(DOMAIN t.branches)
             /\ \A b \in DOMAIN t.branches : Cardinality(EntriesWithId(v.branches, b)) = 1
             /\ ActiveEntries(v.nodes) = EntriesWithId(v.nodes, t.activeNodeId)
             /\ Cardinality(ActiveEntries(v.nodes)) = 1
             /\ ActiveEntries(v.branches) = EntriesWithId(v.branches, t.activeBranchId)
             /\ Cardinality(ActiveEntries(v.branches)) = 1
             /\ \A c \in DOMAIN t.nodes :
                  t.nodes[c].parentId # Undefined =>
                    Cardinality(EdgesBetween(v.edges, t.nodes[c].parentId, c)) = 1
             /\ \A i \in 1..Len(v.edges) :
                  /\ Has(t.nodes, v.edges[i].target)
                  /\ t.nodes[v.edges[i].target].parentId = v.edges[i].source
             /\ Len(v.edges) = Cardinality(DOMAIN t.nodes) - 1)
  /\ [][\A p \in Projects : getVisualizationData(p) => timelines' = timelines]_vars

\* C23 witness: the visualization was asked for while the cursor is on a
\* node of a branch other than the branch created last, in a timeline with
\* a node that has two children.
C23_Witness ==
  /\ Called("getVisualizationData")
  /\ \E p \in Live :
       LET t == timelines[p]
       IN /\ last.projectId = p
          /\ ~t.branches[t.activeBranchId].isActive
          /\ \E n \in DOMAIN t.nodes : Len(t.nodes[n].childrenIds) = 2

\* ------------------------------------------------------------------- C24
\* C24 (as claimed): in every reachable state a branch has isActive = TRUE
\* if and only if it is the branch activeBranchId names, also after the
\* cursor was moved to a node of a branch other than the one created last.
C24_ActiveFlagFollowsCursor ==
  \A p \in Live :
    \A b \in DOMAIN timelines[p].branches :
      timelines[p].branches[b].isActive <=> b = timelines[p].activeBranchId

\* ------------------------------------------------------------------- C25
\* the node createTimeline made: the first one listed in the main branch
RootOf(t) == t.branches[t.mainBranchId].nodeIds[1]
Parentless(t) == {n \in DOMAIN t.nodes : t.nodes[n].parentId = Undefined}

\* the walk along parentId from n ends, at the root, and read from the root
\* it goes down to n through childrenIds
ClimbsToRoot(t, n) ==
  LET w == WalkUp(t, n, <<>>, Cardinality(DOMAIN t.nodes) + 1)
  IN /\ w.done
     /\ Len(w.path) >= 1
     /\ w.path[1] = RootOf(t)
     /\ w.path[Len(w.path)] = n
     /\ \A i \in 1..(Len(w.path) - 1) :
          w.path[i + 1] \in Range(t.nodes[w.path[i]].childrenIds)

\* C25: the node store is one rooted tree: the node createTimeline made is
\* the only one without parentId, the parentId links lead from every node
\* to it in finitely many steps, every node is reached from it through
\* childrenIds, and the walks of getCurrentPath and buildPathFromNode end.
C25_SingleRootedTree ==
  \A p \in Live :
    LET t == timelines[p]
    IN /\ Has(t.branches, t.mainBranchId)
       /\ Parentless(t) = {RootOf(t)}
       /\ \A n \in DOMAIN t.nodes :
            /\ ClimbsToRoot(t, n)
            /\ buildPathFromNode(t, n).done
       /\ CurrentPath(timelines, p).done

\* C25 witness: addNode has just put the cursor on a node two links below
\* the root, in a tree where a node other than the root has two children.
C25_Witness ==
  /\ Called("addNode")
  /\ \E p \in Live :
       LET t == timelines[p]
       IN \E n \in DOMAIN t.nodes \ {RootOf(t)} :
            /\ Len(t.nodes[n].childrenIds) = 2
            /\ t.nodes[t.activeNodeId].stepNumber = 3

\* ------------------------------------------------------------------- C26
CheckpointsResolve(t) ==
  \A name \in DOMAIN t.checkpoints : Has(t.nodes, t.checkpoints[name])

NodesAreListed(t) ==
  \A n \in DOMAIN t.nodes :
    /\ Has(t.branches, t.nodes[n].branchId)
    /\ n \in Range(t.branches[t.nodes[n].branchId].nodeIds)

ListedNodesExist(t) ==
  \A b \in DOMAIN t.branches : Range(t.branches[b].nodeIds) \subseteq DOMAIN t.nodes

ForksResolve(t) ==
  \A b \in DOMAIN t.branches \ {t.mainBranchId} :
    /\ Has(t.branches, t.branches[b].parentBranchId)
    /\ Len(t.branches[b].nodeIds) >= 1
    /\ t.branches[b].branchPoint = t.branches[b].nodeIds[1]

\* C26: every checkpoint name maps to a stored node; every node's branchId
\* names a stored branch that lists the node; every listed id is a stored
\* node; every branch but the main one has a stored parent branch and its
\* branchPoint first in its nodeIds; and addNode and createCheckpoint never
\* fail on a project that has a timeline.
C26_ReferentialIntegrity ==
  /\ [](\A p \in Live :
          /\ CheckpointsResolve(timelines[p])
          /\ NodesAreListed(timelines[p])
          /\ ListedNodesExist(timelines[p])
          /\ ForksResolve(timelines[p]))
  /\ [][\A p \in Projects :
          Has(timelines, p) =>
            /\ \A type \in NodeTypes : addNode(p, type) => last'.ok
            /\ \A name \in CheckpointInputs : createCheckpoint(p, name) => last'.ok]_vars

\* C26 witness: createCheckpoint has just bound a name to a node that
\* addNode put on a forked branch, after the branch point.
C26_Witness ==
  /\ Called("createCheckpoint")
  /\ \E p \in Live :
       LET t == timelines[p]
           b == t.branches[t.activeBranchId]
       IN /\ t.checkpoints[last.name] = t.activeNodeId
          /\ t.activeNodeId # b.branchPoint
          /\ t.nodes[t.activeNodeId].branchId = b.id
          /\ b.id # t.mainBranchId

\* ------------------------------------------------------------------- C27
\* C27 (as claimed): no branch ever lists more nodes than the configured
\* maxNodesPerBranch.
C27_BranchLengthLimited ==
  \A p \in Live :
    \A b \in DOMAIN timelines[p].branches :
      Len(timelines[p].branches[b].nodeIds) <= maxNodesPerBranch

\* ------------------------------------------------------------------- C28
\* C28 (as claimed): when an addNode writes an automatic checkpoint and an
\* earlier addNode of the same timeline wrote one, at least the interval
\* lies between the two, whatever was called in between.
C28_AutoCheckpointsRateLimited ==
  [][\A p \in Projects, type \in NodeTypes :
       (/\ addNode(p, type)
        /\ last'.ok
        /\ AutoCheckpointWritten(timelines[p], timelines'[p])
        /\ autoAt[p] # 0)
       => now - autoAt[p] >= IntervalMs]_vars

\* ------------------------------------------------------------------- C29
\* the step in which an Auto Run reports 'All Steps Completed', every
\* backend call of the run having succeeded and the user having done
\* nothing since it started
AutoRunReportsCompleted ==
  /\ autoRun.pc # "done"
  /\ autoRun'.pc = "done"
  /\ autoRun'.clean

\* C29 (as claimed): when such a run reports 'All Steps Completed', it has
\* executed exactly the steps that were not completed when it started, and
\* every step of the plan state is marked completed, the executed ones with
\* the code returned for them.
C29_AutoRunExecutesWholePlan ==
  [][AutoRunReportsCompleted =>
       /\ DOMAIN autoRun'.returned =
            {autoRun'.steps[i].id : i \in {j \in 1..Len(autoRun'.steps) :
                                            ~autoRun'.steps[j].completed}}
       /\ \A i \in 1..Len(steps') :
            /\ steps'[i].completed
            /\ Has(autoRun'.returned, steps'[i].id) =>
                 steps'[i].code = autoRun'.returned[steps'[i].id]]_vars

\* ------------------------------------------------------------------- C30
\* Save is clicked in the dialog that the named handler opened
SavesDialogOf(handler) == clickSave /\ opener = handler

\* C30 (as claimed): Save in the dialog opened by addNewStep, with a
\* non-empty title and description, appends exactly one step with that
\* title and description, completed = FALSE and the id addNewStep chose,
\* which no other step has; Save in the dialog opened for an existing step
\* changes only that step's title and description.
C30_SaveAddsOrEditsStep ==
  [][/\ (SavesDialogOf("addNewStep") /\ newStepTitle # "" /\ newStepDescription # "")
        => /\ steps' = Append(steps, [id |-> editingStep[1].id,
                                      title |-> newStepTitle,
                                      description |-> newStepDescription,
                                      completed |-> FALSE, code |-> NoCode])
           /\ editingStep[1].id \notin StepIds(steps)
     /\ SavesDialogOf("openEditStep")
        => /\ Len(steps') = Len(steps)
           /\ \A i \in 1..Len(steps) :
                IF steps[i].id = editingStep[1].id
                THEN steps'[i] = [steps[i] EXCEPT !.title = newStepTitle,
                                                  !.description = newStepDescription]
                ELSE steps'[i] = steps[i]]_vars

====
